---------------------------- MODULE Spec2Model ----------------------------
(***************************************************************************)
(* rad-flux (flux-minimal): the DataStore state container and the Actions  *)
(* registry, modelled as state machines.                                   *)
(*                                                                         *)
(* JavaScript values are pairs <<tag, payload>>.  An object's own          *)
(* properties are a total function over Keys whose value Absent means      *)
(* "no such own property".  Nested objects are held by value: the model    *)
(* assumes a patch shares no object with the state it is merged into (the  *)
(* patches are fresh literals), so only the top-level state object carries *)
(* an identity (ref).                                                      *)
(***************************************************************************)
EXTENDS Integers, Sequences, FiniteSets, TLC

VARIABLES
    state,        \* DataStore: this.state, [ref |-> identity, val |-> value]
    subscribers,  \* DataStore: this.subscribers, a sequence of callbacks
    actions,      \* Actions: this.actions, name -> undefined or { subscribers, func }
    pending,      \* Actions: the done closures handed to handlers so far
    last          \* history: the last top-level call, its outcome and the callbacks it ran

vars == <<state, subscribers, actions, pending, last>>

storeVars == <<state, subscribers>>
registryVars == <<actions, pending>>

----------------------------------------------------------------------------
(* Bounds of the model *)

MaxStateEntries == 3
MaxPatchEntries == 2
MaxShallowEntries == 1

Keys == {"a", "b"}
\* for (const key in newState): the enumeration order of a patch's keys
KeyOrder == <<"a", "b">>

----------------------------------------------------------------------------
(* JavaScript values *)

Absent == <<"absent", 0>>
Undef == <<"undefined", 0>>
Null == <<"null", 0>>
Num(n) == <<"number", n>>
Str(s) == <<"string", s>>
Bool(b) == <<"boolean", b>>
Fn(f) == <<"function", f>>
NoOwn == [k \in Keys |-> Absent]
PlainObj(own) == <<"object", own>>
Arr(id, own) == <<"array", [id |-> id, own |-> own]>>

IsObj(x) == x[1] \in {"object", "array"}
Own(x) == IF x[1] = "array" THEN x[2].own ELSE x[2]
WithOwn(x, own) == IF x[1] = "array" THEN Arr(x[2].id, own) ELSE PlainObj(own)
OwnKeys(x) == {k \in Keys : Own(x)[k] # Absent}

\* typeof x
TypeOf(x) == IF x[1] \in {"null", "object", "array"} THEN "object" ELSE x[1]

\* stem[key]: an absent property reads as undefined
Get(x, k) == IF Own(x)[k] = Absent THEN Undef ELSE Own(x)[k]
\* variant: the assignment drops the stem's other properties
PutDestructive(x, k, val) == WithOwn(x, [NoOwn EXCEPT ![k] = val])
\* stem[key] = value
Put(x, k, val) == WithOwn(x, [Own(x) EXCEPT ![k] = val])
\* delete stem[key]
Delete(x, k) == WithOwn(x, [Own(x) EXCEPT ![k] = Absent])

RECURSIVE Entries(_)
RECURSIVE EntriesOver(_, _)
EntriesOver(x, i) ==
    IF i > Len(KeyOrder) THEN 0
    ELSE (IF Own(x)[KeyOrder[i]] = Absent THEN 0 ELSE 1 + Entries(Own(x)[KeyOrder[i]]))
         + EntriesOver(x, i + 1)
\* the number of properties of a value, nested ones included
Entries(x) == IF IsObj(x) THEN EntriesOver(x, 1) ELSE 0

RECURSIVE Trees(_, _)
\* the plain objects over Keys with at most n properties whose leaves are in `leaves`
Trees(leaves, n) ==
    LET slots == {Absent} \cup (IF n = 0 THEN {} ELSE leaves \cup Trees(leaves, n - 1))
    IN  {x \in {PlainObj(own) : own \in [Keys -> slots]} : Entries(x) <= n}


RECURSIVE At(_, _)
\* the value reached from x along a path of keys
At(x, path) == IF path = <<>> THEN x ELSE At(Get(x, Head(path)), Tail(path))

RECURSIVE SetAt(_, _, _)
\* x with the value at the end of `path` replaced by val (a write through a reference)
SetAt(x, path, val) ==
    IF path = <<>> THEN val
    ELSE Put(x, Head(path), SetAt(Get(x, Head(path)), Tail(path), val))

Range(s) == {s[i] : i \in 1..Len(s)}
\* Array.prototype.splice(i, 1)
Splice(s, i) == [j \in 1..(Len(s) - 1) |-> IF j < i THEN s[j] ELSE s[j + 1]]

----------------------------------------------------------------------------
(* Calls.  A call runs on a world w: the object's fields, the callbacks the *)
(* call has invoked so far (calls), the error it has thrown (error) and its *)
(* return value (ret).                                                      *)

None == "none"
TypeError == "TypeError"
\* the two errors of class Error that register throws, told apart by their message
NotDeclared == "Error: action not declared"
AlreadyRegistered == "Error: action already registered"

\* the exception a subscriber throws
Thrown == "Thrown"
\* a subscriber whose body throws
Thrower == Fn("fThrow")
\* a subscriber of the state that unsubscribes itself inside its notification, the
\* one-shot listener of the README
OneShot == Fn("fOnce")

\* variant: an exception of a callback is swallowed
InvokeSwallowing(w, each, arg) == [w EXCEPT !.calls = Append(@, [fn |-> each, arg |-> arg])]
\* each(arg): the callback runs, and returns or throws
Invoke(w, each, arg) ==
    LET w1 == [w EXCEPT !.calls = Append(@, [fn |-> each, arg |-> arg])]
    IN  IF each = Thrower THEN [w1 EXCEPT !.error = Thrown] ELSE w1

----------------------------------------------------------------------------
(* DataStore *)

StoreWorld == [state |-> state, subscribers |-> subscribers,
               calls |-> <<>>, error |-> None, ret |-> Undef]

RECURSIVE UnsubscribeFrom(_, _, _)
\* the loop of unsubscribe: the first i with callback === subs[i] is spliced out
UnsubscribeFrom(subs, callback, i) ==
    IF i > Len(subs) THEN subs
    ELSE IF callback = subs[i] THEN Splice(subs, i)
    ELSE UnsubscribeFrom(subs, callback, i + 1)

\* variant: unsubscribe drops the last subscriber instead of the one it is given
unsubscribeLast(w, callback) ==
    IF callback \in Range(w.subscribers)
    THEN [w EXCEPT !.subscribers = SubSeq(@, 1, Len(@) - 1)]
    ELSE w
unsubscribe(w, callback) ==
    [w EXCEPT !.subscribers = UnsubscribeFrom(@, callback, 1)]

RECURSIVE NotifyStateFrom(_, _)

\* variant: the check without the constructor test, which lets arrays through
IsInvalidPatchLoose(newState) == TypeOf(newState) # "object" \/ newState = Null
\* typeof newState !== 'object' || newState === null || newState.constructor !== Object
IsInvalidPatch(newState) ==
    TypeOf(newState) # "object" \/ newState = Null \/ newState[1] # "object"

\* variant: undefined is not taken for a deletion
IsDeletionNullOnly(item) == item = Null
\* newState[key] === null || newState[key] === undefined
IsDeletion(item) == item = Null \/ item = Undef

\* typeof newState[key] === 'object' && typeof stem[key] === 'object'
ShouldRecurse(item, old) == TypeOf(item) = "object" /\ TypeOf(old) = "object"

\* stem === this.state: the stem is the state object itself
IsOuterLayer(path) == path = <<>>

RECURSIVE setState(_, _, _)
RECURSIVE MergeKeys(_, _, _, _)
\* the loop of setState over the patch's keys, from the i-th key on; the stem is the
\* object at `path` in this.state.  A null stem makes every property access throw.
MergeKeys(w, newState, path, i) ==
    IF i > Len(KeyOrder) THEN w
    ELSE LET key == KeyOrder[i]
             item == Own(newState)[key]
             stem == At(w.state.val, path)
         IN  IF item = Absent THEN MergeKeys(w, newState, path, i + 1)
             ELSE IF stem = Null THEN [w EXCEPT !.error = TypeError]
             ELSE IF IsDeletion(item)
             THEN MergeKeys([w EXCEPT !.state.val = SetAt(@, path, Delete(stem, key))],
                            newState, path, i + 1)
             ELSE IF ShouldRecurse(item, Get(stem, key))
             THEN LET w2 == setState(w, item, path \o <<key>>)
                  IN  IF w2.error # None THEN w2
                      ELSE MergeKeys(w2, newState, path, i + 1)
             ELSE MergeKeys([w EXCEPT !.state.val = SetAt(@, path, Put(stem, key, item))],
                            newState, path, i + 1)

\* variant: setState leaves the merged contents in a new object
setStateCopying(w, newState, path) ==
    IF IsInvalidPatch(newState) THEN [w EXCEPT !.error = TypeError]
    ELSE LET m == MergeKeys(w, newState, path, 1)
         IN  IF m.error # None THEN m
             ELSE IF IsOuterLayer(path)
             THEN NotifyStateFrom([m EXCEPT !.state.ref = IF @ = "o1" THEN "o2" ELSE "o1"],
                                  1)
             ELSE m
\* setState(newState, stem = this.state), the stem given by its path in this.state
setState(w, newState, path) ==
    IF IsInvalidPatch(newState) THEN [w EXCEPT !.error = TypeError]
    ELSE LET m == MergeKeys(w, newState, path, 1)
         IN  IF m.error # None THEN m
             ELSE IF IsOuterLayer(path) THEN NotifyStateFrom(m, 1)
             ELSE m

\* variant: replaceState as strict as setState, ignoring arrays too
IsIgnoredReplacementStrict(val) == val[1] # "object"
\* typeof newState !== 'object' || newState === null
IsIgnoredReplacement(val) == TypeOf(val) # "object" \/ val = Null

\* variant: replaceState throws on what it should ignore
replaceStateThrowing(w, newState) ==
    IF IsIgnoredReplacement(newState.val) THEN [w EXCEPT !.error = TypeError]
    ELSE NotifyStateFrom([w EXCEPT !.state = newState], 1)
\* variant: replaceState restores the old state when a subscriber throws
replaceStateRollingBack(w, newState) ==
    IF IsIgnoredReplacement(newState.val) THEN w
    ELSE LET w2 == NotifyStateFrom([w EXCEPT !.state = newState], 1)
         IN  IF w2.error # None THEN [w2 EXCEPT !.state = w.state] ELSE w2
\* replaceState(newState): newState is [ref, val], an object with its identity
replaceState(w, newState) ==
    IF IsIgnoredReplacement(newState.val) THEN w
    ELSE NotifyStateFrom([w EXCEPT !.state = newState], 1)

\* variant: onStateChanged without the includes test
onStateChangedAgain(w, callback) ==
    IF TypeOf(callback) = "function"
    THEN [w EXCEPT !.subscribers = Append(@, callback), !.ret = callback]
    ELSE w
\* variant: onStateChanged puts the callback at the head of the list
onStateChangedFirst(w, callback) ==
    IF TypeOf(callback) = "function" /\ callback \notin Range(w.subscribers)
    THEN [w EXCEPT !.subscribers = <<callback>> \o @, !.ret = callback]
    ELSE w
onStateChanged(w, callback) ==
    IF TypeOf(callback) = "function" /\ callback \notin Range(w.subscribers)
    THEN [w EXCEPT !.subscribers = Append(@, callback), !.ret = callback]
    ELSE w

\* subscribers of the state that call the store from inside their notification:
\* Setter sets b when the state it is given has none, Replacer replaces a state
\* without a by a fresh object, Subscriber subscribes f2
Setter == Fn("fSet")
Replacer == Fn("fReplace")
Subscriber == Fn("fSub")
SetterPatch == PlainObj([NoOwn EXCEPT !["b"] = Num(2)])
ReplacerState(w) == [ref |-> IF w.state.ref = "o1" THEN "o2" ELSE "o1",
                     val |-> PlainObj([NoOwn EXCEPT !["a"] = Num(1)])]

\* variant: a setState made inside a notification merges without notifying
InvokeStateSubscriberQuiet(w, each) ==
    LET w1 == Invoke(w, each, w.state)
    IN  IF each = Setter /\ Own(w.state.val)["b"] = Absent
        THEN MergeKeys(w1, SetterPatch, <<>>, 1)
        ELSE w1
\* each(this.state): the callback runs, and what it calls on the store runs inside
\* it, before the notification loop goes on.  The one-shot listener calls
\* unsubscribe on itself.
InvokeStateSubscriber(w, each) ==
    LET w1 == Invoke(w, each, w.state)
    IN  IF each = OneShot THEN unsubscribe(w1, each)
        ELSE IF each = Setter /\ Own(w.state.val)["b"] = Absent
        THEN setState(w1, SetterPatch, <<>>)
        ELSE IF each = Replacer /\ Own(w.state.val)["a"] = Absent
        THEN replaceState(w1, ReplacerState(w))
        ELSE IF each = Subscriber
        THEN [onStateChanged(w1, Fn("f2")) EXCEPT !.ret = w.ret]
        ELSE w1

\* for (const each of this.subscribers) each(this.state), from the i-th subscriber on:
\* the iterator reads the live array at its next index
NotifyStateFrom(w, i) ==
    IF i > Len(w.subscribers) THEN w
    ELSE LET w2 == InvokeStateSubscriber(w, w.subscribers[i])
         IN  IF w2.error # None THEN w2 ELSE NotifyStateFrom(w2, i + 1)

----------------------------------------------------------------------------
(* Inputs of the DataStore *)

\* the leaves of the initial states and of the patches
InitLeaves == {Num(1), Arr(1, NoOwn)}
PatchLeaves == {Num(2), Arr(2, NoOwn), Null, Undef}

InitStates == Trees(InitLeaves, MaxStateEntries)
Patches == Trees(PatchLeaves, MaxPatchEntries)
\* the patches of the specification that calls every method
ShallowPatches == Trees(PatchLeaves, MaxShallowEntries)
\* arguments of setState that are no plain object
BadPatches == {Undef, Null, Num(42), Str("s"), Bool(FALSE), Arr(2, NoOwn), Fn("f1")}
\* arguments of replaceState: objects (arrays included), and what it ignores
Replacements == Trees({Num(1)}, 1) \cup {Arr(1, NoOwn)}
BadReplacements == {Undef, Null, Num(42), Str("s"), Bool(TRUE), Fn("f1")}
Callbacks == {Fn("f1"), Fn("f2")}
NonCallables == {Undef, Null, Num(42), PlainObj(NoOwn)}

\* the identities of the objects a caller hands to the store
Refs == {"o1", "o2"}

----------------------------------------------------------------------------
(* The DataStore as a state machine: one action per method call.  A call    *)
(* runs to completion in one step and leaves its record in `last`; Return   *)
(* is the caller taking that record before the next call.                   *)

Idle == [op |-> "idle", arg |-> Undef, pre |-> Undef, error |-> None,
         ret |-> Undef, calls |-> <<>>, handled |-> <<>>, dones |-> <<>>]

\* the record of a finished call
Finished(op, arg, pre, w) ==
    [op |-> op, arg |-> arg, pre |-> pre, error |-> w.error, ret |-> w.ret,
     calls |-> w.calls, handled |-> <<>>, dones |-> <<>>]

\* new DataStore(initState): this.state = initState || {}
NewDataStore(initState) ==
    /\ state = [ref |-> "o1",
                val |-> IF initState = Undef THEN PlainObj(NoOwn) ELSE initState]
    /\ subscribers = <<>>

StoreStep(op, arg, w) ==
    /\ last.op = "idle"
    /\ Entries(w.state.val) <= MaxStateEntries
    /\ state' = w.state
    /\ subscribers' = w.subscribers
    /\ last' = Finished(op, arg, StoreWorld, w)
    /\ UNCHANGED registryVars

SetState(newState) == StoreStep("setState", newState, setState(StoreWorld, newState, <<>>))

ReplaceState(newState) ==
    StoreStep("replaceState", newState, replaceState(StoreWorld, newState))

OnStateChanged(callback) ==
    StoreStep("onStateChanged", callback, onStateChanged(StoreWorld, callback))

Unsubscribe(callback) ==
    StoreStep("unsubscribe", callback, unsubscribe(StoreWorld, callback))

Return ==
    /\ last.op # "idle"
    /\ last' = Idle
    /\ UNCHANGED <<storeVars, registryVars>>

\* what a caller can pass to replaceState: a fresh object, the state object itself,
\* or a value that is no object
ReplaceArgs ==
    {[ref |-> r, val |-> v] : r \in Refs \ {state.ref}, v \in Replacements}
    \cup {state}
    \cup {[ref |-> "-", val |-> v] : v \in BadReplacements}

----------------------------------------------------------------------------
(* Actions *)

MaxPending == 2

\* the property names a caller uses; Declared are the keys given to the constructor
Names == {"x", "y", "z"}
DeclaredSets == {{"x"}, {"x", "y"}}

\* { subscribers: [...], func }
ActionRecord(subs, func) == <<"action", [subscribers |-> subs, func |-> func]>>

\* the names this.actions inherits from Object.prototype (the constructor keeps the
\* object literal it is given): under such a name it holds a function, no record
Inherited == {"toString"}

\* this.actions[key]: the record of a declared action, an inherited property, or
\* undefined
Lookup(acts, key) ==
    IF key[1] = "string" /\ key[2] \in DOMAIN acts THEN acts[key[2]]
    ELSE IF key[1] = "string" /\ key[2] \in Inherited THEN Fn(key[2])
    ELSE Undef

\* the value is one of the records the constructor and register install
IsRecord(action) == action[1] = "action"
\* action.func and action.subscribers: undefined on what is no action record
Func(action) == IF IsRecord(action) THEN action[2].func ELSE Undef
Subs(action) == IF IsRecord(action) THEN action[2].subscribers ELSE Undef

\* handled: the handler invocations of the call; dones: its done invocations
RegistryWorld == [actions |-> actions, pending |-> pending, calls |-> <<>>,
                  handled |-> <<>>, dones |-> <<>>, error |-> None, ret |-> Undef]

\* the handlers a caller registers: hSync calls done(args) before it returns, hLater
\* keeps its done callback, which may be invoked later, or never
Handlers == {Fn("hSync"), Fn("hLater")}
\* hTwice calls done(args) and then done(SecondData) before it returns
SecondData == Num(7)
DoneHandlers == {Fn("hLater"), Fn("hTwice")}

\* new Actions(actions): every key of `actions` gets { subscribers: [], func: null }
NewActions(declared) ==
    [key \in Names |-> IF key \in declared THEN ActionRecord(<<>>, Null) ELSE Undef]

\* the record register installs with Object.defineProperty
RegisteredRecord(old, func) == ActionRecord(<<>>, func)

\* variant: register installs the handler under any name it knows, declared or not,
\* handler or not
registerUnchecked(w, key, func) ==
    IF TypeOf(key) # "string" THEN [w EXCEPT !.error = TypeError]
    ELSE IF TypeOf(func) # "function" THEN [w EXCEPT !.error = TypeError]
    ELSE IF key[2] \notin DOMAIN w.actions THEN [w EXCEPT !.error = NotDeclared]
    ELSE [w EXCEPT !.actions[key[2]] = ActionRecord(<<>>, func)]
\* variant: register looks the action up before it checks its arguments
registerLateTypeCheck(w, key, func) ==
    IF Lookup(w.actions, key) = Undef THEN [w EXCEPT !.error = NotDeclared]
    ELSE IF Func(Lookup(w.actions, key)) # Null THEN [w EXCEPT !.error = AlreadyRegistered]
    ELSE IF TypeOf(key) # "string" THEN [w EXCEPT !.error = TypeError]
    ELSE IF TypeOf(func) # "function" THEN [w EXCEPT !.error = TypeError]
    ELSE [w EXCEPT !.actions[key[2]] = RegisteredRecord(@, func)]
register(w, key, func) ==
    IF TypeOf(key) # "string" THEN [w EXCEPT !.error = TypeError]
    ELSE IF TypeOf(func) # "function" THEN [w EXCEPT !.error = TypeError]
    ELSE IF Lookup(w.actions, key) = Undef THEN [w EXCEPT !.error = NotDeclared]
    ELSE IF Func(Lookup(w.actions, key)) # Null THEN [w EXCEPT !.error = AlreadyRegistered]
    ELSE [w EXCEPT !.actions[key[2]] = RegisteredRecord(@, func)]

\* variant: on declares the action if its name is free
onCreating(w, key, callback) ==
    IF TypeOf(key) # "string" THEN [w EXCEPT !.error = TypeError]
    ELSE IF TypeOf(callback) # "function" THEN [w EXCEPT !.error = TypeError]
    ELSE IF ~IsRecord(Lookup(w.actions, key))
    THEN IF key[2] \in DOMAIN w.actions
         THEN [w EXCEPT !.actions[key[2]] = ActionRecord(<<callback>>, Null),
                        !.ret = callback]
         ELSE [w EXCEPT !.error = TypeError]
    ELSE IF callback \notin Range(Subs(Lookup(w.actions, key)))
    THEN [w EXCEPT !.actions[key[2]][2].subscribers = Append(@, callback),
                   !.ret = callback]
    ELSE w
on(w, key, callback) ==
    IF TypeOf(key) # "string" THEN [w EXCEPT !.error = TypeError]
    ELSE IF TypeOf(callback) # "function" THEN [w EXCEPT !.error = TypeError]
    \* this.actions[key].subscribers of an undeclared key: a TypeError of the runtime
    ELSE IF Lookup(w.actions, key) = Undef THEN [w EXCEPT !.error = TypeError]
    \* undefined.includes(callback): the same
    ELSE IF ~IsRecord(Lookup(w.actions, key)) THEN [w EXCEPT !.error = TypeError]
    ELSE IF callback \notin Range(Subs(Lookup(w.actions, key)))
    THEN [w EXCEPT !.actions[key[2]][2].subscribers = Append(@, callback),
                   !.ret = callback]
    ELSE w

\* a subscriber of the action x that subscribes f2 to x inside its notification
Joiner == Fn("fOn")
\* each(data): the callback runs, and what it calls on the registry runs inside it
InvokeActionSubscriber(w, each, data) ==
    LET w1 == Invoke(w, each, data)
    IN  IF each = Joiner /\ w1.error = None
        THEN [on(w1, Str("x"), Fn("f2")) EXCEPT !.ret = w.ret]
        ELSE w1

RECURSIVE PublishFrom(_, _, _, _)
\* for (const each of action.subscribers) each(data), from the i-th subscriber on
PublishFrom(w, key, data, i) ==
    LET subs == Subs(Lookup(w.actions, key))
    \* for...of over undefined: a TypeError of the runtime
    IN  IF ~IsRecord(Lookup(w.actions, key)) THEN [w EXCEPT !.error = TypeError]
        ELSE IF i > Len(subs) THEN w
        ELSE LET w2 == InvokeActionSubscriber(w, subs[i], data)
             IN  IF w2.error # None THEN w2 ELSE PublishFrom(w2, key, data, i + 1)

\* variant: publish stops after the first subscriber
publishHeadOnly(w, key, data) ==
    IF IsRecord(Lookup(w.actions, key)) /\ Len(Subs(Lookup(w.actions, key))) > 0
    THEN Invoke(w, Subs(Lookup(w.actions, key))[1], data)
    ELSE w
publish(w, key, data) ==
    IF Lookup(w.actions, key) # Undef THEN PublishFrom(w, key, data, 1) ELSE w

\* variant: every done callback publishes the action x
buildDoneFunctionFixed(key) == <<"done", Str("x")>>
\* the closure buildDoneFunction(key) returns
buildDoneFunction(key) == <<"done", key>>

\* variant: a done callback publishes the data of the first done invocation
InvokeDoneFirstData(w, done, data) ==
    LET w1 == [w EXCEPT !.dones = Append(@, [done |-> done, data |-> data])]
    IN  publish(w1, done[2], w1.dones[1].data)
\* variant: a done callback publishes once only
InvokeDoneLatched(w, done, data) ==
    LET w1 == [w EXCEPT !.dones = Append(@, [done |-> done, data |-> data])]
    IN  IF \E i \in 1..Len(w.dones) : w.dones[i].done = done THEN w1
        ELSE publish(w1, done[2], data)
\* done(data): actions.publish(key, data)
InvokeDone(w, done, data) ==
    publish([w EXCEPT !.dones = Append(@, [done |-> done, data |-> data])], done[2], data)

\* variant: call publishes on its own, without waiting for done
InvokeHandlerEager(w, func, done, args) ==
    LET w1 == [w EXCEPT !.handled = Append(@, [fn |-> func, done |-> done, args |-> args])]
    IN  IF func = Fn("hSync") THEN InvokeDone(w1, done, args)
        ELSE publish([w1 EXCEPT !.pending = Append(@, done)], done[2], Undef)
\* variant: a handler does not run while a done callback is outstanding
InvokeHandlerBusy(w, func, done, args) ==
    IF w.pending # <<>> THEN w
    ELSE LET w1 == [w EXCEPT !.handled =
                                Append(@, [fn |-> func, done |-> done, args |-> args])]
         IN  IF func = Fn("hSync") THEN InvokeDone(w1, done, args)
             ELSE [w1 EXCEPT !.pending = Append(@, done)]
\* action.func(done, args): the registered handler runs
InvokeHandler(w, func, done, args) ==
    LET w1 == [w EXCEPT !.handled = Append(@, [fn |-> func, done |-> done, args |-> args])]
    IN  IF func = Fn("hSync") THEN InvokeDone(w1, done, args)
        ELSE IF func = Fn("hTwice")
        THEN LET w2 == InvokeDone(w1, done, args)
             IN  IF w2.error # None THEN w2 ELSE InvokeDone(w2, done, SecondData)
        ELSE [w1 EXCEPT !.pending = Append(@, done)]

\* variant: call hands its args on to the subscribers
UnhandledDataGiven(args) == args
\* what call publishes for an action without a registered function: this.publish(key)
UnhandledData(args) == Undef

call(w, key, args) ==
    LET action == Lookup(w.actions, key)
    IN  IF action = Undef THEN w
        ELSE IF TypeOf(Func(action)) = "function"
        THEN InvokeHandler(w, Func(action), buildDoneFunction(key), args)
        ELSE publish(w, key, UnhandledData(args))

\* variant: unsubscribe drops the action's first subscriber, whatever the callback
unsubscribeActionHead(w, key, callback) ==
    IF ~IsRecord(Lookup(w.actions, key)) THEN w
    ELSE IF Subs(Lookup(w.actions, key)) = <<>> THEN w
    ELSE [w EXCEPT !.actions[key[2]][2].subscribers = Tail(@)]
unsubscribeAction(w, key, callback) ==
    IF Lookup(w.actions, key) = Undef THEN w
    \* undefined.length: a TypeError of the runtime
    ELSE IF ~IsRecord(Lookup(w.actions, key)) THEN [w EXCEPT !.error = TypeError]
    ELSE [w EXCEPT !.actions[key[2]][2].subscribers = UnsubscribeFrom(@, callback, 1)]

----------------------------------------------------------------------------
(* The registry as a state machine *)

KeyArgs == {Str(n) : n \in Names \cup Inherited} \cup {Num(42)}
DataArgs == {Undef, Num(42)}

FinishedAction(op, arg, pre, w) ==
    [op |-> op, arg |-> arg, pre |-> pre, error |-> w.error, ret |-> w.ret,
     calls |-> w.calls, handled |-> w.handled, dones |-> w.dones]

RegistryStep(op, arg, w) ==
    /\ last.op = "idle"
    /\ Len(w.pending) <= MaxPending
    /\ actions' = w.actions
    /\ pending' = w.pending
    /\ last' = FinishedAction(op, arg, RegistryWorld, w)
    /\ UNCHANGED storeVars

Register(key, func) ==
    RegistryStep("register", <<key, func>>, register(RegistryWorld, key, func))

Call(key, args) == RegistryStep("call", <<key, args>>, call(RegistryWorld, key, args))

Publish(key, data) ==
    RegistryStep("publish", <<key, data>>, publish(RegistryWorld, key, data))

On(key, callback) == RegistryStep("on", <<key, callback>>, on(RegistryWorld, key, callback))

UnsubscribeAction(key, callback) ==
    RegistryStep("unsubscribeAction", <<key, callback>>,
                 unsubscribeAction(RegistryWorld, key, callback))

\* a handler that kept its done callback invokes it; with keep = FALSE it then drops it
Done(i, data, keep) ==
    /\ i \in 1..Len(pending)
    /\ LET w == InvokeDone(RegistryWorld, pending[i], data)
       IN  RegistryStep("done", <<pending[i], data>>,
                        IF keep THEN w ELSE [w EXCEPT !.pending = Splice(@, i)])

----------------------------------------------------------------------------
(* Specifications *)

\* Spec: a DataStore and every method of it, beside a registry nobody calls
Init ==
    /\ \E initState \in InitStates \cup {Undef} : NewDataStore(initState)
    /\ actions = NewActions({})
    /\ pending = <<>>
    /\ last = Idle

Next ==
    \/ \E newState \in ShallowPatches \cup BadPatches : SetState(newState)
    \/ \E newState \in ReplaceArgs : ReplaceState(newState)
    \/ \E callback \in Callbacks \cup NonCallables : OnStateChanged(callback)
    \/ \E callback \in Callbacks \cup NonCallables : Unsubscribe(callback)
    \/ Return

Spec == Init /\ [][Next]_vars

\* SpecMerge: setState with patches of any shape up to MaxPatchEntries, with or
\* without a subscriber
NextMerge ==
    \/ \E newState \in Patches \cup BadPatches : SetState(newState)
    \/ OnStateChanged(Fn("f1"))
    \/ Return

SpecMerge == Init /\ [][NextMerge]_vars

\* SpecActions: a registry, beside a DataStore nobody calls
InitActions ==
    /\ \E declared \in DeclaredSets : actions = NewActions(declared)
    /\ pending = <<>>
    /\ NewDataStore(Undef)
    /\ last = Idle

NextActions ==
    \/ \E key \in KeyArgs, func \in Handlers \cup NonCallables : Register(key, func)
    \/ \E key \in KeyArgs, args \in DataArgs : Call(key, args)
    \/ \E key \in KeyArgs, data \in DataArgs : Publish(key, data)
    \/ \E key \in KeyArgs, callback \in Callbacks \cup NonCallables : On(key, callback)
    \/ \E key \in KeyArgs, callback \in Callbacks \cup NonCallables :
          UnsubscribeAction(key, callback)
    \/ \E i \in 1..MaxPending, data \in DataArgs, keep \in BOOLEAN : Done(i, data, keep)
    \/ Return

SpecActions == InitActions /\ [][NextActions]_vars

\* SpecSystem: a DataStore and a registry side by side in one program, with a
\* subscriber that throws; only the action x gets a handler, one that keeps its done
SystemCallbacks == {Fn("f1"), Thrower}
SystemPatches == {PlainObj([NoOwn EXCEPT !["a"] = Num(2)]),
                  PlainObj([NoOwn EXCEPT !["a"] = Null])}
SystemReplacements == {[ref |-> r, val |-> PlainObj(NoOwn)] : r \in Refs \ {state.ref}}
SystemKeys == {Str("x"), Str("y")}

InitSystem ==
    /\ NewDataStore(Undef)
    /\ actions = NewActions({"x", "y"})
    /\ pending = <<>>
    /\ last = Idle

NextSystem ==
    \/ \E newState \in SystemPatches : SetState(newState)
    \/ \E newState \in SystemReplacements : ReplaceState(newState)
    \/ \E callback \in SystemCallbacks : OnStateChanged(callback)
    \/ \E callback \in SystemCallbacks : Unsubscribe(callback)
    \/ Register(Str("x"), Fn("hLater"))
    \/ \E key \in SystemKeys : Call(key, Num(42))
    \/ \E key \in SystemKeys : Publish(key, Num(42))
    \/ \E key \in SystemKeys, callback \in SystemCallbacks : On(key, callback)
    \/ \E key \in SystemKeys, callback \in SystemCallbacks : UnsubscribeAction(key, callback)
    \/ \E i \in 1..MaxPending : Done(i, Num(42), FALSE)
    \/ Return

SpecSystem == InitSystem /\ [][NextSystem]_vars

\* SpecDone: one action, its handlers' done callbacks and the subscribers that come
\* and go while they are outstanding
InitDone ==
    /\ actions = NewActions({"x"})
    /\ pending = <<>>
    /\ NewDataStore(Undef)
    /\ last = Idle

NextDone ==
    \/ \E func \in DoneHandlers : Register(Str("x"), func)
    \/ \E args \in DataArgs : Call(Str("x"), args)
    \/ \E callback \in Callbacks : On(Str("x"), callback)
    \/ \E callback \in Callbacks : UnsubscribeAction(Str("x"), callback)
    \/ \E i \in 1..MaxPending, data \in DataArgs, keep \in BOOLEAN : Done(i, data, keep)
    \/ Return

SpecDone == InitDone /\ [][NextDone]_vars

\* SpecUnsubscribe: a DataStore with up to three subscribers that come and go
ThreeCallbacks == {Fn("f1"), Fn("f2"), Fn("f3")}

NextUnsubscribe ==
    \/ \E callback \in ThreeCallbacks : OnStateChanged(callback)
    \/ \E callback \in ThreeCallbacks \cup NonCallables : Unsubscribe(callback)
    \/ \E newState \in SystemPatches : SetState(newState)
    \/ \E newState \in SystemReplacements : ReplaceState(newState)
    \/ Return

SpecUnsubscribe == InitSystem /\ [][NextUnsubscribe]_vars

\* SpecReentrant: a DataStore one of whose subscribers is a one-shot listener
ReentrantCallbacks == {Fn("f1"), Fn("f2"), OneShot}

NextReentrant ==
    \/ \E callback \in ReentrantCallbacks : OnStateChanged(callback)
    \/ \E callback \in ReentrantCallbacks : Unsubscribe(callback)
    \/ \E newState \in SystemPatches : SetState(newState)
    \/ \E newState \in SystemReplacements : ReplaceState(newState)
    \/ Return

SpecReentrant == InitSystem /\ [][NextReentrant]_vars

\* SpecNested: a DataStore whose subscribers mutate the state inside a notification
NestedCallbacks == {Fn("f1"), Setter, Replacer}
NestedPatches == SystemPatches \cup {PlainObj([NoOwn EXCEPT !["b"] = Null])}

NextNested ==
    \/ \E callback \in NestedCallbacks : OnStateChanged(callback)
    \/ \E callback \in NestedCallbacks : Unsubscribe(callback)
    \/ \E newState \in NestedPatches : SetState(newState)
    \/ \E newState \in SystemReplacements : ReplaceState(newState)
    \/ Return

SpecNested == InitSystem /\ [][NextNested]_vars

\* SpecJoin: a DataStore and a registry whose subscribers subscribe another callback,
\* f2, inside a notification
JoinCallbacks == {Fn("f1"), Subscriber}
JoinListeners == {Fn("f1"), Joiner}

NextJoin ==
    \/ \E callback \in JoinCallbacks : OnStateChanged(callback)
    \/ \E callback \in JoinCallbacks \cup {Fn("f2")} : Unsubscribe(callback)
    \/ \E newState \in SystemPatches : SetState(newState)
    \/ \E newState \in SystemReplacements : ReplaceState(newState)
    \/ \E callback \in JoinListeners : On(Str("x"), callback)
    \/ \E callback \in JoinListeners \cup {Fn("f2")} : UnsubscribeAction(Str("x"), callback)
    \/ \E key \in SystemKeys : Publish(key, Num(42))
    \/ Return

SpecJoin == InitSystem /\ [][NextJoin]_vars

----------------------------------------------------------------------------
(* Properties.  `last` holds the finished call: its arguments (arg), the    *)
(* object before the call (pre), the error it threw and the callbacks it    *)
(* invoked, in order (calls); the variables hold the object after the call. *)

IsPlain(x) == x[1] = "object"
IsNullish(x) == x[1] \in {"null", "undefined"}

\* a setState call whose patch is a plain object
ValidSetState == last.op = "setState" /\ IsPlain(last.arg)

\* one invocation of each callback of subs, in order, each with arg
OnceEach(subs, arg) == [i \in 1..Len(subs) |-> [fn |-> subs[i], arg |-> arg]]

RECURSIVE Merged(_, _)
\* the merge of patch B into mapping A as the specification states it: a null or
\* undefined value deletes the key, two plain mappings merge, any other value
\* (arrays included) replaces the old one
Merged(A, B) ==
    PlainObj([k \in Keys |->
        LET a == Own(A)[k]
            b == Own(B)[k]
        IN  IF b = Absent THEN a
            ELSE IF IsNullish(b) THEN Absent
            ELSE IF IsPlain(b) /\ IsPlain(a) THEN Merged(a, b)
            ELSE b])

\* C1: setState is non-destructive: a key of the state that the patch does not
\* name keeps its value, and when state and patch share no key (and the patch has
\* no null or undefined value) the call succeeds and the state is their union.
C1_NonDestructive ==
    ValidSetState =>
        LET A == last.pre.state.val
            B == last.arg
        IN  /\ \A k \in Keys : Own(B)[k] = Absent => Own(state.val)[k] = Own(A)[k]
            /\ (/\ OwnKeys(A) \cap OwnKeys(B) = {}
                /\ \A k \in OwnKeys(B) : ~IsNullish(Own(B)[k]))
               => /\ last.error = None
                  /\ \A k \in Keys :
                        Own(state.val)[k] =
                            IF k \in OwnKeys(B) THEN Own(B)[k] ELSE Own(A)[k]

\* a state and a patch with disjoint, non-empty key sets have been merged
C1_Witness ==
    /\ ValidSetState
    /\ OwnKeys(last.pre.state.val) # {}
    /\ OwnKeys(last.arg) # {}
    /\ OwnKeys(last.pre.state.val) \cap OwnKeys(last.arg) = {}
    /\ \A k \in OwnKeys(last.arg) : ~IsNullish(Own(last.arg)[k])
    /\ OwnKeys(state.val) = Keys

\* C2: nested mappings merge recursively at any depth: where patch[k] and state[k]
\* are both plain mappings, state[k] after the call is the merge of patch[k] into
\* the old state[k] by the rules of the top level.
C2_NestedMerge ==
    ValidSetState =>
        \A k \in Keys :
            LET a == Own(last.pre.state.val)[k]
                b == Own(last.arg)[k]
            IN  (IsPlain(a) /\ IsPlain(b)) => Own(state.val)[k] = Merged(a, b)

RECURSIVE IsDeletionPatch(_)
\* {k: null}, {k: undefined}, or such a patch nested under single keys
IsDeletionPatch(B) ==
    /\ IsPlain(B)
    /\ Cardinality(OwnKeys(B)) = 1
    /\ \A k \in OwnKeys(B) : IsNullish(Own(B)[k]) \/ IsDeletionPatch(Own(B)[k])

RECURSIVE DeletedPath(_)
\* the path of the key a deletion patch names
DeletedPath(B) ==
    LET k == CHOOSE j \in Keys : j \in OwnKeys(B)
    IN  IF IsNullish(Own(B)[k]) THEN <<k>> ELSE <<k>> \o DeletedPath(Own(B)[k])

RECURSIVE MappingsAlong(_, _)
\* the key at the end of `path` lies inside nested plain mappings of A
MappingsAlong(A, path) ==
    /\ IsPlain(A)
    /\ Len(path) > 1 => MappingsAlong(Own(A)[Head(path)], Tail(path))

RECURSIVE Without(_, _)
\* mapping A without the key at the end of `path`, everything else as it is
Without(A, path) ==
    PlainObj([k \in Keys |->
        IF k # Head(path) THEN Own(A)[k]
        ELSE IF Len(path) = 1 THEN Absent
        ELSE Without(Own(A)[k], Tail(path))])

\* C3: deletion law: setState({k: null}) and setState({k: undefined}), at the top
\* level or for a key inside nested mappings of the state, succeed and leave the
\* state without k and otherwise as it was (so both have the same effect, and
\* deleting a key that is not there changes nothing).
C3_DeletionLaw ==
    (/\ last.op = "setState"
     /\ IsDeletionPatch(last.arg)
     /\ MappingsAlong(last.pre.state.val, DeletedPath(last.arg)))
    => /\ last.error = None
       /\ state.val = Without(last.pre.state.val, DeletedPath(last.arg))

\* setState({a: {k: undefined}}) has removed a key that was there
C3_Witness ==
    /\ last.op = "setState"
    /\ last.error = None
    /\ IsDeletionPatch(last.arg)
    /\ Len(DeletedPath(last.arg)) = 2
    /\ MappingsAlong(last.pre.state.val, DeletedPath(last.arg))
    /\ At(last.arg, DeletedPath(last.arg)) = Undef
    /\ At(last.pre.state.val, DeletedPath(last.arg)) # Undef
    /\ At(state.val, DeletedPath(last.arg)) = Undef

\* C4: every top-level setState call with a valid patch invokes each subscriber
\* exactly once, in subscription order, after the merge, with the container's state.
C4_NotifiesOnceEach ==
    ValidSetState => last.calls = OnceEach(last.pre.subscribers, state)

\* C5: setState with an argument that is no plain mapping throws a TypeError,
\* leaves the state and the subscribers as they were and notifies nobody.
C5_InvalidPatchRejected ==
    (last.op = "setState" /\ ~IsPlain(last.arg))
    => /\ last.error = TypeError
       /\ state = last.pre.state
       /\ subscribers = last.pre.subscribers
       /\ last.calls = <<>>

\* setState was given an array while a callback was subscribed
C5_Witness ==
    /\ last.op = "setState"
    /\ last.arg[1] = "array"
    /\ last.error = TypeError
    /\ Len(subscribers) > 0

\* C6: arrays are leaves: a patch value that is an array becomes the state's value
\* at that key whatever was there, and the call raises no error.
C6_ArraysAreLeaves ==
    ValidSetState =>
        \A k \in Keys :
            Own(last.arg)[k][1] = "array"
            => last.error = None /\ Own(state.val)[k] = Own(last.arg)[k]

\* the arguments replaceState accepts: every non-null value of type object
IsReplacement(val) == val[1] \in {"object", "array"}

\* C7: replace law: after replaceState(S) with an object S (arrays included) the
\* state is S itself and every subscriber was invoked once, in order, with S.
C7_ReplaceLaw ==
    (last.op = "replaceState" /\ IsReplacement(last.arg.val))
    => /\ last.error = None
       /\ state = last.arg
       /\ subscribers = last.pre.subscribers
       /\ last.calls = OnceEach(last.pre.subscribers, last.arg)

\* an array has replaced a different state, with two callbacks subscribed
C7_Witness ==
    /\ last.op = "replaceState"
    /\ last.arg.val[1] = "array"
    /\ last.pre.state.val[1] = "object"
    /\ OwnKeys(last.pre.state.val) # {}
    /\ last.pre.state.ref # last.arg.ref
    /\ Len(last.calls) = 2

\* C8: replaceState with null, undefined or a primitive is ignored: no error, the
\* same state, no callback invoked.
C8_ReplaceIgnored ==
    (last.op = "replaceState" /\ ~IsReplacement(last.arg.val))
    => /\ last.error = None
       /\ state = last.pre.state
       /\ subscribers = last.pre.subscribers
       /\ last.calls = <<>>

\* replaceState(42) was called while a callback was subscribed
C8_Witness ==
    /\ last.op = "replaceState"
    /\ last.arg.val = Num(42)
    /\ Len(subscribers) > 0
    /\ OwnKeys(state.val) # {}

\* the action named key has a registered handler
HasHandler(acts, key) ==
    Lookup(acts, key)[1] = "action" /\ TypeOf(Lookup(acts, key)[2].func) = "function"

\* the subscribers of the action named key
SubscribersOf(acts, key) == Lookup(acts, key)[2].subscribers

RECURSIVE Published(_, _)
\* the notifications a sequence of done invocations owes: for each, in turn, one
\* invocation of each subscriber of its action with the data given to done
Published(acts, dones) ==
    IF dones = <<>> THEN <<>>
    ELSE OnceEach(SubscribersOf(acts, Head(dones).done[2]), Head(dones).data)
         \o Published(acts, Tail(dones))

\* C9: async gating: a call of an action with a registered handler notifies
\* subscribers only through the done invocations made, so none if the handler has
\* not invoked done; an invocation of done notifies each subscriber of the action
\* with exactly the data given to done.
C9_AsyncGating ==
    /\ (last.op = "call" /\ HasHandler(last.pre.actions, last.arg[1]))
       => last.calls = Published(last.pre.actions, last.dones)
    /\ last.op = "done"
       => /\ last.dones = <<[done |-> last.arg[1], data |-> last.arg[2]]>>
          /\ last.calls = OnceEach(SubscribersOf(last.pre.actions, last.arg[1][2]),
                                   last.arg[2])

\* a call whose handler kept done has returned: two subscribers, none notified
C9_Witness ==
    /\ last.op = "call"
    /\ HasHandler(last.pre.actions, last.arg[1])
    /\ Len(SubscribersOf(last.pre.actions, last.arg[1])) = 2
    /\ last.handled # <<>>
    /\ last.dones = <<>>
    /\ last.calls = <<>>
    /\ Len(pending) = Len(last.pre.pending) + 1

\* C10: a successful register keeps the action's subscribers, in their order.
C10_RegisterKeepsSubscribers ==
    (last.op = "register" /\ last.error = None)
    => SubscribersOf(actions, last.arg[1]) = SubscribersOf(last.pre.actions, last.arg[1])

\* a call of a declared action that has no registered handler
UnhandledCall ==
    /\ last.op = "call"
    /\ IsRecord(Lookup(last.pre.actions, last.arg[1]))
    /\ Func(Lookup(last.pre.actions, last.arg[1])) = Null

C12_UnhandledCallPassesData ==
    UnhandledCall
    => last.calls = OnceEach(SubscribersOf(last.pre.actions, last.arg[1]), last.arg[2])

\* C13: a call of an action with a registered handler invokes that handler exactly
\* once before it returns, with a done callback bound to the action's name as the
\* first argument and the caller's args as the second.
C13_HandlerInvokedOnce ==
    (last.op = "call" /\ HasHandler(last.pre.actions, last.arg[1]))
    => last.handled = <<[fn |-> Func(Lookup(last.pre.actions, last.arg[1])),
                         done |-> <<"done", last.arg[1]>>,
                         args |-> last.arg[2]]>>

\* call('y', 42) has run the handler of y
C13_Witness ==
    /\ last.op = "call"
    /\ last.arg = <<Str("y"), Num(42)>>
    /\ HasHandler(last.pre.actions, Str("y"))
    /\ Len(last.handled) = 1
    /\ last.handled[1].args = Num(42)
    /\ last.handled[1].done[2] = Str("y")

\* a register call whose arguments pass the type checks
ValidRegister ==
    /\ last.op = "register"
    /\ TypeOf(last.arg[1]) = "string"
    /\ TypeOf(last.arg[2]) = "function"

\* the names declared at construction: the own keys of this.actions
DeclaredNames(acts) == {n \in DOMAIN acts : IsRecord(acts[n])}

\* key is a string that names no declared action
IsUndeclared(acts, key) == TypeOf(key) = "string" /\ key[2] \notin DeclaredNames(acts)

\* C14: double registration is rejected: register(a, f2) on an action that has a
\* handler throws the already-registered error and leaves the registry as it was,
\* so the first handler stays the action's handler.
C14_DoubleRegistrationRejected ==
    (ValidRegister /\ HasHandler(last.pre.actions, last.arg[1]))
    => /\ last.error = AlreadyRegistered
       /\ actions = last.pre.actions
       /\ pending = last.pre.pending
       /\ last.handled = <<>>
       /\ last.calls = <<>>

\* register(a, hLater) was called on an action whose handler is hSync
C14_Witness ==
    /\ ValidRegister
    /\ last.arg[2] = Fn("hLater")
    /\ Func(Lookup(last.pre.actions, last.arg[1])) = Fn("hSync")
    /\ Func(Lookup(actions, last.arg[1])) = Fn("hSync")
    /\ last.error = AlreadyRegistered

\* C15: handler binding is one-way: each action has one func slot, and once it
\* holds a handler no step of the registry empties it or puts another function there.
C15_HandlerPermanent ==
    [][\A n \in Names :
          HasHandler(actions, Str(n))
          => /\ IsRecord(actions'[n])
             /\ Func(actions'[n]) = Func(actions[n])]_vars

\* both actions have their handlers, and a further registration has just been refused
C15_Witness ==
    /\ Func(Lookup(actions, Str("x"))) = Fn("hLater")
    /\ Func(Lookup(actions, Str("y"))) = Fn("hSync")
    /\ last.op = "register"
    /\ last.arg = <<Str("y"), Fn("hLater")>>
    /\ last.error # None

\* C16: register under a name that was not declared at construction throws the
\* not-declared error and creates no action.
C16_RegisterUndeclared ==
    (ValidRegister /\ IsUndeclared(last.pre.actions, last.arg[1]))
    => /\ last.error = NotDeclared
       /\ actions = last.pre.actions

\* C17: the set of action names is fixed: no step of the registry, successful or
\* failing, adds a name to the ones declared at construction or removes one.
C17_NamesFixed == [][DeclaredNames(actions') = DeclaredNames(actions)]_vars

\* only x was declared, and a registration under another name has just failed
C17_Witness ==
    /\ DeclaredNames(actions) = {"x"}
    /\ ValidRegister
    /\ last.arg[1] = Str("z")
    /\ last.error = NotDeclared

\* a call or a publish under a name that names no declared action
UndeclaredCallOrPublish ==
    /\ last.op \in {"call", "publish"}
    /\ ~(TypeOf(last.arg[1]) = "string" /\ last.arg[1][2] \in DeclaredNames(last.pre.actions))

\* C18: call and publish under an undeclared name are silent no-ops: no error, no
\* handler and no subscriber invoked, every handler and subscriber list as before;
\* and publish on a declared action without subscribers raises no error either.
C18_UndeclaredIsNoOp ==
    /\ UndeclaredCallOrPublish
       => /\ last.error = None
          /\ last.handled = <<>>
          /\ last.calls = <<>>
          /\ actions = last.pre.actions
          /\ pending = last.pre.pending
    /\ (/\ last.op = "publish"
        /\ IsRecord(Lookup(last.pre.actions, last.arg[1]))
        /\ SubscribersOf(last.pre.actions, last.arg[1]) = <<>>)
       => last.error = None /\ last.calls = <<>>

\* an on call whose arguments pass the type checks
ValidOn ==
    /\ last.op = "on"
    /\ TypeOf(last.arg[1]) = "string"
    /\ TypeOf(last.arg[2]) = "function"

\* C19: on under a string name that was not declared at construction fails with an
\* error (the runtime's TypeError on reading subscribers of what is no action, the
\* failure the specification calls NotFound) and leaves the registry as it was.
C19_OnUndeclaredFails ==
    (ValidOn /\ IsUndeclared(last.pre.actions, last.arg[1]))
    => /\ last.error = TypeError
       /\ last.ret = Undef
       /\ actions = last.pre.actions
       /\ pending = last.pre.pending
       /\ last.calls = <<>>

\* on('z', f1) has failed in a registry that has a subscriber on x
C19_Witness ==
    /\ ValidOn
    /\ last.arg = <<Str("z"), Fn("f1")>>
    /\ last.error = TypeError
    /\ SubscribersOf(actions, Str("x")) # <<>>
    /\ Lookup(actions, Str("z")) = Undef

\* C20: register and on throw a TypeError when the name is no string or the function
\* argument is not callable, before any other check (whether or not the name is
\* declared or has a handler), and leave the registry as it was.
C20_InvalidArgumentsRejected ==
    (/\ last.op \in {"register", "on"}
     /\ (TypeOf(last.arg[1]) # "string" \/ TypeOf(last.arg[2]) # "function"))
    => /\ last.error = TypeError
       /\ actions = last.pre.actions
       /\ pending = last.pre.pending
       /\ last.handled = <<>>
       /\ last.calls = <<>>

\* register('z', 42) under an undeclared name has thrown the TypeError
C20_Witness ==
    /\ last.op = "register"
    /\ last.arg = <<Str("z"), Num(42)>>
    /\ Lookup(last.pre.actions, Str("z")) = Undef
    /\ last.error = TypeError

\* no callback is twice in the list
NoDuplicates(subs) == \A i, j \in 1..Len(subs) : subs[i] = subs[j] => i = j

ValidMutation ==
    \/ ValidSetState
    \/ last.op = "replaceState" /\ IsReplacement(last.arg.val)

\* C22: unsubscribe(X) of the DataStore removes exactly X and keeps the other
\* callbacks in their order; it raises no error, also when X is not subscribed, and
\* then changes nothing; later mutations invoke the callbacks that are left, and
\* only those.
C22_UnsubscribePrecision ==
    /\ last.op = "unsubscribe"
       => /\ last.error = None
          /\ subscribers = SelectSeq(last.pre.subscribers, LAMBDA c : c # last.arg)
          /\ state = last.pre.state
          /\ last.calls = <<>>
    /\ ValidMutation
       => /\ subscribers = last.pre.subscribers
          /\ last.calls = OnceEach(subscribers, state)

\* unsubscribe(f1) has turned [f1, f2, f3] into [f2, f3]
C22_Witness ==
    /\ last.op = "unsubscribe"
    /\ last.arg = Fn("f1")
    /\ last.pre.subscribers = <<Fn("f1"), Fn("f2"), Fn("f3")>>
    /\ subscribers = <<Fn("f2"), Fn("f3")>>

\* C23: unsubscribe(name, callback) of the registry removes the callback from the
\* subscribers of name only, keeping the others in their order; every other action
\* and every handler stay as they were; with an undeclared name or a callback that
\* is not subscribed it is a no-op, and it never raises an error.
C23_RegistryUnsubscribe ==
    last.op = "unsubscribeAction"
    => /\ last.error = None
       /\ pending = last.pre.pending
       /\ last.calls = <<>>
       /\ \A n \in Names :
             actions[n] =
                 IF Str(n) = last.arg[1] /\ IsRecord(last.pre.actions[n])
                 THEN ActionRecord(SelectSeq(Subs(last.pre.actions[n]),
                                             LAMBDA c : c # last.arg[2]),
                                   Func(last.pre.actions[n]))
                 ELSE last.pre.actions[n]

\* C24: onStateChanged(callback) appends a callable callback that is not yet
\* subscribed at the end of the list and returns it; otherwise it returns nothing
\* and leaves the list as it was; it never raises an error.
C24_OnStateChanged ==
    last.op = "onStateChanged"
    => /\ last.error = None
       /\ last.calls = <<>>
       /\ state = last.pre.state
       /\ IF TypeOf(last.arg) = "function" /\ last.arg \notin Range(last.pre.subscribers)
          THEN subscribers = Append(last.pre.subscribers, last.arg) /\ last.ret = last.arg
          ELSE subscribers = last.pre.subscribers /\ last.ret = Undef

\* f2 has been subscribed behind f1 and returned
C24_Witness ==
    /\ last.op = "onStateChanged"
    /\ last.arg = Fn("f2")
    /\ last.ret = Fn("f2")
    /\ last.pre.subscribers = <<Fn("f1")>>
    /\ subscribers = <<Fn("f1"), Fn("f2")>>

\* C25: on(name, callback) on a declared action returns the callback when it
\* subscribes it, and for a callback not yet subscribed to name
\* unsubscribe(name, on(name, callback)) leaves the registry, the subscribers of
\* name in particular, as it was before the on call.
C25_OnUnsubscribeRoundTrip ==
    /\ (/\ ValidOn
        /\ IsRecord(Lookup(last.pre.actions, last.arg[1]))
        /\ last.arg[2] \notin Range(SubscribersOf(last.pre.actions, last.arg[1])))
       => /\ last.error = None
          /\ last.ret = last.arg[2]
          /\ SubscribersOf(actions, last.arg[1])
                = Append(SubscribersOf(last.pre.actions, last.arg[1]), last.arg[2])
    /\ \A key \in KeyArgs, callback \in Callbacks :
          (/\ IsRecord(Lookup(actions, key))
           /\ callback \notin Range(SubscribersOf(actions, key)))
          => LET subscribed == on(RegistryWorld, key, callback)
                 back == unsubscribeAction(subscribed, key, subscribed.ret)
             IN  /\ subscribed.error = None
                 /\ subscribed.ret = callback
                 /\ back.error = None
                 /\ back.actions = actions

\* f2, the last subscriber of x behind f1, has been unsubscribed again
C25_Witness ==
    /\ last.op = "unsubscribeAction"
    /\ last.arg = <<Str("x"), Fn("f2")>>
    /\ last.error = None
    /\ SubscribersOf(last.pre.actions, Str("x")) = <<Fn("f1"), Fn("f2")>>
    /\ SubscribersOf(actions, Str("x")) = <<Fn("f1")>>

\* the calls are one invocation of each callback of subs, in order, all with the
\* same argument
SameToEach(calls, subs) ==
    /\ Len(calls) = Len(subs)
    /\ \A i \in 1..Len(calls) : calls[i].fn = subs[i] /\ calls[i].arg = calls[1].arg

\* C26: a publish, made directly, by call on an action without a handler or by a
\* done callback, has invoked every subscriber of the action exactly once, in
\* subscription order, each with the same data, when the triggering call returns;
\* a direct publish and a done pass the data they were given.
C26_PublishNotifiesAll ==
    /\ (last.op = "publish" /\ IsRecord(Lookup(last.pre.actions, last.arg[1])))
       => /\ last.error = None
          /\ last.calls = OnceEach(SubscribersOf(last.pre.actions, last.arg[1]),
                                   last.arg[2])
    /\ UnhandledCall
       => /\ last.error = None
          /\ SameToEach(last.calls, SubscribersOf(last.pre.actions, last.arg[1]))
    /\ last.op = "done"
       => /\ last.error = None
          /\ SameToEach(last.calls, SubscribersOf(last.pre.actions, last.arg[1][2]))
          /\ \A i \in 1..Len(last.calls) : last.calls[i].arg = last.arg[2]
    /\ last.op \in {"publish", "call", "done"} => actions = last.pre.actions

\* publish('x', 42) has notified f2 and then f1, the order of their subscription
C26_Witness ==
    /\ last.op = "publish"
    /\ last.arg = <<Str("x"), Num(42)>>
    /\ SubscribersOf(last.pre.actions, Str("x")) = <<Fn("f2"), Fn("f1")>>
    /\ last.calls = <<[fn |-> Fn("f2"), arg |-> Num(42)], [fn |-> Fn("f1"), arg |-> Num(42)]>>

\* the subscribers up to the first one that throws, that one included
UpToThrower(subs) ==
    IF Thrower \in Range(subs)
    THEN SubSeq(subs, 1, CHOOSE i \in 1..Len(subs) :
                             subs[i] = Thrower /\ \A j \in 1..(i - 1) : subs[j] # Thrower)
    ELSE subs

\* a publish cycle on a declared action: the action's name and the data published
PublishCycle ==
    \/ last.op = "publish" /\ IsRecord(Lookup(last.pre.actions, last.arg[1]))
    \/ UnhandledCall
    \/ last.op = "done"
PublishedKey == IF last.op = "done" THEN last.arg[1][2] ELSE last.arg[1]

\* C27: a subscriber that throws during the notifications of setState, replaceState
\* or a publish ends the cycle: the subscribers behind it are not invoked, and the
\* exception reaches the caller of the operation.
C27_ThrowingSubscriberAborts ==
    /\ (ValidMutation /\ Thrower \in Range(last.pre.subscribers))
       => /\ last.error = Thrown
          /\ last.calls = OnceEach(UpToThrower(last.pre.subscribers), state)
    /\ (PublishCycle /\ Thrower \in Range(SubscribersOf(last.pre.actions, PublishedKey)))
       => /\ last.error = Thrown
          /\ SameToEach(last.calls,
                        UpToThrower(SubscribersOf(last.pre.actions, PublishedKey)))

\* setState has thrown out of its first subscriber, and f1 behind it was not invoked
C27_Witness ==
    /\ last.op = "setState"
    /\ last.pre.subscribers = <<Thrower, Fn("f1")>>
    /\ last.error = Thrown
    /\ Len(last.calls) = 1
    /\ state # last.pre.state

\* two runs of a registry operation have the same outcome, the outstanding done
\* callbacks aside
SameOutcome(w, free) ==
    /\ w.actions = free.actions
    /\ w.calls = free.calls
    /\ w.handled = free.handled
    /\ w.dones = free.dones
    /\ w.error = free.error
    /\ w.ret = free.ret

\* the registry as it is, but with no done callback outstanding
NothingPending == [RegistryWorld EXCEPT !.pending = <<>>]

\* C28: a stalled handler blocks only its own invocation: with done callbacks
\* outstanding, call, publish, on, unsubscribe and register on any action (further
\* calls on the stalled one included) do what they do with none outstanding, and
\* setState and replaceState of a DataStore complete and notify its subscribers.
C28_StalledHandlerBlocksNothing ==
    /\ \A key \in SystemKeys :
          /\ SameOutcome(call(RegistryWorld, key, Num(42)), call(NothingPending, key, Num(42)))
          /\ SameOutcome(publish(RegistryWorld, key, Num(42)),
                         publish(NothingPending, key, Num(42)))
          /\ SameOutcome(register(RegistryWorld, key, Fn("hLater")),
                         register(NothingPending, key, Fn("hLater")))
          /\ \A callback \in SystemCallbacks :
                /\ SameOutcome(on(RegistryWorld, key, callback),
                               on(NothingPending, key, callback))
                /\ SameOutcome(unsubscribeAction(RegistryWorld, key, callback),
                               unsubscribeAction(NothingPending, key, callback))
    /\ (/\ last.op = "call"
        /\ last.pre.pending # <<>>
        /\ HasHandler(last.pre.actions, last.arg[1]))
       => Len(last.handled) = 1 /\ last.error = None
    /\ (pending # <<>> /\ ValidMutation)
       => SameToEach(last.calls, UpToThrower(last.pre.subscribers))

\* with a call on x stalled, x was called again and its handler ran again
C28_Witness ==
    /\ last.op = "call"
    /\ last.arg[1] = Str("x")
    /\ last.pre.pending = <<buildDoneFunction(Str("x"))>>
    /\ Len(last.handled) = 1
    /\ Len(pending) = 2
    /\ subscribers # <<>>

\* the number of invocations of callback c among the calls
Invocations(calls, c) == Cardinality({i \in 1..Len(calls) : calls[i].fn = c})

\* C29: when setState or replaceState returns normally, every callback that was
\* subscribed when the call began and was not unsubscribed has been invoked exactly
\* once, also when a subscriber unsubscribes itself inside its notification.
C29_EachInvokedOnceDespiteUnsubscribe ==
    (ValidMutation /\ last.error = None)
    => \A c \in Range(last.pre.subscribers) :
          c \in Range(subscribers) => Invocations(last.calls, c) = 1

\* C30: setState is all-or-nothing about its TypeError: when a call throws it, for
\* the patch itself or at any depth of the merge, the state is the state before the
\* call and no subscriber has been notified.
C30_SetStateAllOrNothing ==
    (last.op = "setState" /\ last.error = TypeError)
    => /\ state = last.pre.state
       /\ last.calls = <<>>

\* C31: setState recurses only when both sides are plain mappings: where patch[k]
\* is a plain mapping and state[k] is present but is none (a primitive, null or an
\* array), state[k] after the call is patch[k] and no error is raised.
C31_MappingOverNonMapping ==
    ValidSetState =>
        \A k \in Keys :
            LET a == Own(last.pre.state.val)[k]
                b == Own(last.arg)[k]
            IN  (IsPlain(b) /\ a # Absent /\ ~IsPlain(a))
                => last.error = None /\ Own(state.val)[k] = b


\* a done callback that is outstanding in the current state
Outstanding == {pending[i] : i \in 1..Len(pending)}

\* C32: a done callback publishes to the subscribers the action has when done is
\* invoked, not when call was made: every done delivers its data once to each
\* subscriber of that moment, a callback subscribed while the done callback is
\* outstanding is notified by it, and one unsubscribed meanwhile is not.
C32_DonePublishesToCurrentSubscribers ==
    /\ last.op = "done"
       => last.calls = OnceEach(SubscribersOf(last.pre.actions, last.arg[1][2]),
                                last.arg[2])
    /\ \A done \in Outstanding, callback \in Callbacks, data \in DataArgs :
           LET key == done[2]
               joined == on(RegistryWorld, key, callback)
               left == unsubscribeAction(RegistryWorld, key, callback)
               later == InvokeDone(joined, done, data)
               gone == InvokeDone(left, done, data)
           IN  /\ later.error = None /\ gone.error = None
               /\ later.calls = OnceEach(SubscribersOf(joined.actions, key), data)
               /\ Invocations(later.calls, callback) = 1
               /\ gone.calls = OnceEach(SubscribersOf(left.actions, key), data)
               /\ Invocations(gone.calls, callback) = 0

C32_Witness ==
    /\ last.op = "done"
    /\ last.arg[2] = Num(42)
    /\ last.pre.pending # <<>>
    /\ SubscribersOf(last.pre.actions, last.arg[1][2]) = <<Fn("f2"), Fn("f1")>>
    /\ Len(last.calls) = 2

\* C33: pending invocations of one action are independent: two outstanding done
\* callbacks may be invoked in either order, each notifies every subscriber once
\* with its own data, in the order the done callbacks are invoked, and invoking one
\* leaves the other outstanding.
C33_PendingInvocationsIndependent ==
    /\ last.op = "done"
       => /\ last.dones = <<[done |-> last.arg[1], data |-> last.arg[2]]>>
          /\ \A i \in 1..Len(last.calls) : last.calls[i].arg = last.arg[2]
          /\ Len(pending) >= Len(last.pre.pending) - 1
    /\ \A i, j \in 1..Len(pending), d1, d2 \in DataArgs :
           (i # j /\ pending[i][2] = pending[j][2])
           => LET key == pending[i][2]
                  subs == SubscribersOf(actions, key)
                  w == InvokeDone(InvokeDone(RegistryWorld, pending[i], d1),
                                  pending[j], d2)
              IN  /\ w.error = None
                  /\ w.calls = OnceEach(subs, d1) \o OnceEach(subs, d2)
                  /\ w.pending = pending

C33_Witness ==
    /\ last.op = "done"
    /\ Len(last.pre.pending) = 2
    /\ last.pre.pending[1][2] = last.pre.pending[2][2]
    /\ Len(pending) = 1
    /\ last.arg[2] = Num(42)
    /\ Len(last.calls) = 2

\* C34: a done callback has no once-only guard: a handler that invokes done twice
\* has every subscriber notified twice for that one call, each time with the data of
\* that done invocation, and an outstanding done callback invoked again publishes
\* again.
C34_DoneIsNotOnceOnly ==
    /\ (last.op = "call" /\ HasHandler(last.pre.actions, last.arg[1]))
       => /\ last.calls = Published(last.pre.actions, last.dones)
          /\ Func(Lookup(last.pre.actions, last.arg[1])) = Fn("hTwice")
             => /\ Len(last.handled) = 1
                /\ last.dones = <<[done |-> <<"done", last.arg[1]>>, data |-> last.arg[2]],
                                  [done |-> <<"done", last.arg[1]>>, data |-> SecondData]>>
                /\ \A callback \in Callbacks :
                       Invocations(last.calls, callback)
                       = 2 * Invocations(OnceEach(SubscribersOf(last.pre.actions,
                                                                last.arg[1]), Undef),
                                         callback)
    /\ \A done \in Outstanding, d1, d2 \in DataArgs :
           LET subs == SubscribersOf(actions, done[2])
               w == InvokeDone(InvokeDone(RegistryWorld, done, d1), done, d2)
           IN  w.calls = OnceEach(subs, d1) \o OnceEach(subs, d2)

C34_Witness ==
    /\ last.op = "call"
    /\ last.arg = <<Str("x"), Num(42)>>
    /\ Func(Lookup(last.pre.actions, Str("x"))) = Fn("hTwice")
    /\ Len(last.dones) = 2
    /\ last.calls = <<[fn |-> Fn("f1"), arg |-> Num(42)], [fn |-> Fn("f2"), arg |-> Num(42)],
                      [fn |-> Fn("f1"), arg |-> SecondData],
                      [fn |-> Fn("f2"), arg |-> SecondData]>>

\* the invocation makes its subscriber mutate the state
Reacts(c) ==
    \/ c.fn = Setter /\ Own(c.arg.val)["b"] = Absent
    \/ c.fn = Replacer /\ Own(c.arg.val)["a"] = Absent

\* the state `next` is the one the mutation made inside the invocation c leaves
IsAfter(c, next) ==
    IF c.fn = Setter
    THEN next = [c.arg EXCEPT !.val = Merged(@, SetterPatch)]
    ELSE next.ref # c.arg.ref /\ next.val = PlainObj([NoOwn EXCEPT !["a"] = Num(1)])

RECURSIVE CycleEnd(_, _, _, _)
\* the position in `calls` behind one notification cycle over subs that starts at
\* position pos with the i-th subscriber, every inner cycle nested in full behind
\* the invocation that started it; 0 if calls has no such shape
CycleEnd(calls, subs, pos, i) ==
    IF pos = 0 THEN 0
    ELSE IF i > Len(subs) THEN pos
    ELSE IF pos > Len(calls) THEN 0
    ELSE IF calls[pos].fn # subs[i] THEN 0
    ELSE CycleEnd(calls, subs,
                  IF Reacts(calls[pos]) THEN CycleEnd(calls, subs, pos + 1, 1)
                  ELSE pos + 1,
                  i + 1)

\* C35: when a subscriber calls setState or replaceState inside a notification cycle,
\* the inner call mutates the state and notifies every subscriber to completion
\* before the outer cycle resumes, the outer cycle's remaining subscribers are
\* invoked with the state the inner call left, and every subscriber is invoked
\* once per mutation call made.
C35_ReentrantMutation ==
    ValidMutation =>
        LET subs == last.pre.subscribers
            calls == last.calls
            inner == {i \in 1..Len(calls) : Reacts(calls[i])}
            first == IF last.op = "setState"
                     THEN [last.pre.state EXCEPT !.val = Merged(@, last.arg)]
                     ELSE last.arg
        IN  /\ last.error = None
            /\ subscribers = subs
            /\ CycleEnd(calls, subs, 1, 1) = Len(calls) + 1
            /\ \A c \in Range(subs) : Invocations(calls, c) = 1 + Cardinality(inner)
            /\ IF calls = <<>> THEN state = first ELSE calls[1].arg = first
            /\ \A i \in 1..Len(calls) :
                   LET next == IF i = Len(calls) THEN state ELSE calls[i + 1].arg
                   IN  IF Reacts(calls[i]) THEN i < Len(calls) /\ IsAfter(calls[i], next)
                       ELSE next = calls[i].arg

\* setState({a: 2}) on a state without b: Setter, invoked first, sets b; the inner
\* cycle invokes Setter and f1, and then the outer cycle invokes f1 with b in place
C35_Witness ==
    /\ last.op = "setState"
    /\ last.pre.subscribers = <<Setter, Fn("f1")>>
    /\ Own(last.pre.state.val)["b"] = Absent
    /\ Len(last.calls) = 4
    /\ last.calls[1].fn = Setter /\ Own(last.calls[1].arg.val)["b"] = Absent
    /\ last.calls[2].fn = Setter /\ last.calls[3].fn = Fn("f1")
    /\ last.calls[4].fn = Fn("f1") /\ Own(last.calls[4].arg.val)["b"] = Num(2)
    /\ Own(last.calls[4].arg.val)["a"] = Num(2)

\* the list once f2 has been subscribed to it
Joined(subs) == IF Fn("f2") \in Range(subs) THEN subs ELSE Append(subs, Fn("f2"))

\* C36: a callback subscribed from inside a subscriber during a notification cycle
\* (onStateChanged during setState or replaceState, on(name, ...) during a publish
\* of name) is appended to the list being iterated and is invoked before that same
\* cycle ends.
C36_SubscribedDuringCycle ==
    /\ (ValidMutation /\ Subscriber \in Range(last.pre.subscribers))
       => /\ last.error = None
          /\ subscribers = Joined(last.pre.subscribers)
          /\ last.calls = OnceEach(subscribers, state)
          /\ Invocations(last.calls, Fn("f2")) = 1
    /\ (last.op = "publish" /\ last.arg[1] = Str("x")
            /\ Joiner \in Range(SubscribersOf(last.pre.actions, Str("x"))))
       => /\ last.error = None
          /\ SubscribersOf(actions, Str("x")) = Joined(SubscribersOf(last.pre.actions, Str("x")))
          /\ last.calls = OnceEach(SubscribersOf(actions, Str("x")), last.arg[2])
          /\ Invocations(last.calls, Fn("f2")) = 1

\* a publish of x whose subscriber Joiner has subscribed f2, which the same publish
\* has invoked, in a behaviour where the same happened on the store
C36_Witness ==
    /\ last.op = "publish"
    /\ SubscribersOf(last.pre.actions, Str("x")) = <<Joiner, Fn("f1")>>
    /\ last.calls = OnceEach(<<Joiner, Fn("f1"), Fn("f2")>>, Num(42))
    /\ subscribers = <<Subscriber, Fn("f1"), Fn("f2")>>

\* C37: setState mutates the state in place: across every step the object the
\* container's state refers to changes only by a replaceState that was given an
\* object, and then it is that object; so the object S given to replaceState stays
\* the state through any number of setState calls.
C37_StateReferenceStable ==
    [][/\ state'.ref # state.ref
          => /\ last'.op = "replaceState"
             /\ IsReplacement(last'.arg.val)
             /\ state' = last'.arg
       /\ last'.op = "setState" => state'.ref = state.ref]_vars

\* the object o2, made the state by a replaceState, is still the state after a
\* setState that changed its contents
C37_Witness ==
    /\ last.op = "setState"
    /\ last.error = None
    /\ last.pre.state.ref = "o2"
    /\ state.ref = "o2"
    /\ state.val # last.pre.state.val

\* the state the mutation of `last` leaves in a store without subscribers
Unobserved ==
    LET quiet == [state |-> last.pre.state, subscribers |-> <<>>,
                  calls |-> <<>>, error |-> None, ret |-> Undef]
    IN  IF last.op = "setState" THEN setState(quiet, last.arg, <<>>).state
        ELSE replaceState(quiet, last.arg).state

\* C38: a subscriber exception does not roll the mutation back: when a subscriber
\* throws during the notification of setState(patch) or replaceState(S), the error
\* reaches the caller, the state is the merged (or replaced) one, and the
\* subscribers up to the throwing one were each invoked once with it.
C38_NoRollback ==
    (ValidMutation /\ Thrower \in Range(last.pre.subscribers))
    => /\ last.error = Thrown
       /\ state = IF last.op = "setState"
                  THEN [last.pre.state EXCEPT !.val = Merged(@, last.arg)]
                  ELSE last.arg
       /\ state = Unobserved
       /\ last.calls = OnceEach(UpToThrower(last.pre.subscribers), state)
       /\ subscribers = last.pre.subscribers

\* replaceState has thrown out of its second subscriber, and the state is the object
\* it was given
C38_Witness ==
    /\ last.op = "replaceState"
    /\ last.pre.subscribers = <<Fn("f1"), Thrower>>
    /\ last.error = Thrown
    /\ Len(last.calls) = 2
    /\ state = last.arg
    /\ state.ref # last.pre.state.ref
=============================================================================
